---- MODULE Spec2Model ----
(***************************************************************************)
(* CSP-Bypass: the passive scanner of burp_csp_bypass.py                   *)
(* (ContentSecurityPolicyScan) together with the policy parser and the     *)
(* domain matcher it imports from csp_parser.                              *)
(*                                                                         *)
(* A Python str that the program takes apart (a source token, a bypass     *)
(* domain) is a sequence of one-character strings; a str that is only      *)
(* lowercased and compared (a directive name, a header name) is a TLA+     *)
(* string.  A header value is the sequence of its `;'-separated clauses,   *)
(* each clause the name and the whitespace-separated words that follow.    *)
(***************************************************************************)
EXTENDS Naturals, Sequences, FiniteSets, TLC

(***************************************************************************)
(* Bounds of the model.                                                    *)
(***************************************************************************)
MaxCalls == 2
MaxClauses == 2
MaxLabels == 3

(***************************************************************************)
(* str operations.                                                         *)
(***************************************************************************)
UPPERCASE == <<"A","B","C","D","E","F","G","H","I","J","K","L","M",
               "N","O","P","Q","R","S","T","U","V","W","X","Y","Z">>
LOWERCASE == <<"a","b","c","d","e","f","g","h","i","j","k","l","m",
               "n","o","p","q","r","s","t","u","v","w","x","y","z">>

\* str.lower() of one character
LowerChar(c) ==
    IF \E i \in 1..Len(UPPERCASE) : UPPERCASE[i] = c
    THEN LOWERCASE[CHOOSE i \in 1..Len(UPPERCASE) : UPPERCASE[i] = c]
    ELSE c

\* str.lower()
Lower(s) == [i \in 1..Len(s) |-> LowerChar(s[i])]

\* str.startswith(p)
StartsWith(s, p) == Len(s) >= Len(p) /\ SubSeq(s, 1, Len(p)) = p

\* `sub in s' for strings
StrContains(s, sub) ==
    \E i \in 1..(Len(s) + 1) :
        i + Len(sub) - 1 <= Len(s) /\ SubSeq(s, i, i + Len(sub) - 1) = sub

\* str.find(sub) + 1: the first position of sub in s, 0 when there is none
Find(s, sub) ==
    IF StrContains(s, sub)
    THEN CHOOSE i \in 1..(Len(s) + 1) :
            /\ i + Len(sub) - 1 <= Len(s)
            /\ SubSeq(s, i, i + Len(sub) - 1) = sub
            /\ \A j \in 1..(i - 1) : SubSeq(s, j, j + Len(sub) - 1) # sub
    ELSE 0

\* str.split(sep): the pieces between the occurrences of sep, empty ones kept
RECURSIVE Split(_, _)
Split(s, sep) ==
    IF ~StrContains(s, sep)
    THEN <<s>>
    ELSE LET i == Find(s, sep)
         IN  <<SubSeq(s, 1, i - 1)>> \o Split(SubSeq(s, i + Len(sep), Len(s)), sep)

\* sep.join(parts)
RECURSIVE Join(_, _)
Join(parts, sep) ==
    IF parts = <<>> THEN <<>>
    ELSE IF Len(parts) = 1 THEN parts[1]
    ELSE parts[1] \o sep \o Join(Tail(parts), sep)

\* `x in list'
InList(x, list) == \E i \in 1..Len(list) : list[i] = x

\* the sequences over S of length lo..hi
SeqsOf(S, lo, hi) == UNION {[1..n -> S] : n \in lo..hi}

(***************************************************************************)
(* csp_parser: the names the scanner imports from it.                      *)
(***************************************************************************)
DEFAULT_SRC == "default-src"
SCRIPT_SRC == "script-src"
STYLE_SRC == "style-src"
IMG_SRC == "img-src"
CONNECT_SRC == "connect-src"
FONT_SRC == "font-src"
MEDIA_SRC == "media-src"
OBJECT_SRC == "object-src"
FRAME_SRC == "frame-src"
CHILD_SRC == "child-src"
BASE_URI == "base-uri"
FORM_ACTION == "form-action"
FRAME_ANCESTORS == "frame-ancestors"
PLUGIN_TYPES == "plugin-types"
REPORT_URI == "report-uri"
SANDBOX == "sandbox"

\* the recognized directives, in the order the policy is iterated
DIRECTIVES ==
    <<DEFAULT_SRC, SCRIPT_SRC, STYLE_SRC, IMG_SRC, CONNECT_SRC, FONT_SRC,
      MEDIA_SRC, OBJECT_SRC, FRAME_SRC, CHILD_SRC, BASE_URI, FORM_ACTION,
      FRAME_ANCESTORS, PLUGIN_TYPES, REPORT_URI, SANDBOX>>

\* ContentSecurityPolicy.NO_FALLBACK
NO_FALLBACK ==
    <<BASE_URI, FORM_ACTION, FRAME_ANCESTORS, PLUGIN_TYPES, REPORT_URI, SANDBOX>>

DEPRECATED_HEADERS == <<"x-content-security-policy", "x-webkit-csp">>

\* the source keywords and schemes, as str
QUOTE == <<"'">>
STAR == <<"*">>
DOT == <<".">>
SCHEME_SEP == <<":", "/", "/">>
SELF == <<"'","s","e","l","f","'">>
NONE == <<"'","n","o","n","e","'">>
UNSAFE_EVAL == <<"'","u","n","s","a","f","e","-","e","v","a","l","'">>
UNSAFE_INLINE == <<"'","u","n","s","a","f","e","-","i","n","l","i","n","e","'">>
HTTPS == <<"h","t","t","p","s",":">>
HTTP == <<"h","t","t","p",":">>

\* str.lower() of a directive or header name, on the spellings the model uses
LowerName(n) ==
    CASE n = "Content-Security-Policy" -> "content-security-policy"
      [] n = "X-Content-Security-Policy" -> "x-content-security-policy"
      [] n = "X-WebKit-CSP" -> "x-webkit-csp"
      [] n = "Content-Type" -> "content-type"
      [] n = "Default-Src" -> "default-src"
      [] n = "Script-Src" -> "script-src"
      [] n = "SCRIPT-SRC" -> "script-src"
      [] n = "Report-URI" -> "report-uri"
      [] n = "FooBar-Src" -> "foobar-src"
      [] OTHER -> n

(***************************************************************************)
(* csp_parser.ContentSecurityPolicy.  A clause is [name, sources]; the     *)
(* clause left by a trailing `;' has the empty name and is discarded.      *)
(***************************************************************************)
EmptyClause == [name |-> "", sources |-> <<>>]

\* the directive -> source list mapping of the clauses: a later clause of the
\* same directive overwrites the earlier one
RECURSIVE parse_directives(_, _)
parse_directives(clauses, acc) ==
    IF clauses = <<>> THEN acc
    ELSE LET c == Head(clauses)
         IN  IF c.name = ""
             THEN parse_directives(Tail(clauses), acc)
             ELSE parse_directives(Tail(clauses),
                                   (LowerName(c.name) :> c.sources) @@ acc)

\* the clause names that are not recognized directives
invalid_directives(clauses) ==
    {i \in 1..Len(clauses) :
        clauses[i].name # "" /\ ~InList(LowerName(clauses[i].name), DIRECTIVES)}

NoPolicy == [ok |-> FALSE, header_name |-> "", directives |-> <<>>]

\* ContentSecurityPolicy(header_name, header_value); ok = FALSE: ValueError
ContentSecurityPolicy(header_name, header_value) ==
    IF invalid_directives(header_value) # {}
    THEN NoPolicy
    ELSE [ok |-> TRUE,
          header_name |-> header_name,
          directives |-> parse_directives(header_value, <<>>)]

is_deprecated_header(csp) == InList(LowerName(csp.header_name), DEPRECATED_HEADERS)

\* hasExplicit: the mapping holds an entry for the directive
has_explicit(csp, directive) == directive \in DOMAIN csp.directives

Absent == [absent |-> TRUE, sources |-> <<>>]
Sources(list) == [absent |-> FALSE, sources |-> list]

\* csp[directive]: the effective lookup.  An unspecified NO_FALLBACK directive
\* yields None (absent), another unspecified directive default-src's list
csp_getitem(csp, directive) ==
    IF has_explicit(csp, directive)
    THEN Sources(csp.directives[directive])
    ELSE IF ~InList(directive, NO_FALLBACK)
    THEN IF has_explicit(csp, DEFAULT_SRC)
         THEN Sources(csp.directives[DEFAULT_SRC])
         ELSE Sources(<<>>)
    ELSE Absent

\* the membership test answering for the explicit entries only
csp_contains_explicit(csp, directive) == has_explicit(csp, directive)

\* `directive in csp': tests.py asserts SCRIPT_SRC in csp for a header that
\* lists default-src and no script-src, so a directive that inherits from an
\* explicit default-src is a member
csp_contains(csp, directive) ==
    \/ has_explicit(csp, directive)
    \/ ~InList(directive, NO_FALLBACK) /\ has_explicit(csp, DEFAULT_SRC)

\* csp.iteritems(): the explicit entries
csp_iteritems(csp) ==
    LET explicit == SelectSeq(DIRECTIVES, LAMBDA d : has_explicit(csp, d))
    IN  [i \in 1..Len(explicit) |-> <<explicit[i], csp_getitem(csp, explicit[i])>>]

(***************************************************************************)
(* csp_parser.csp_match_domains                                            *)
(***************************************************************************)
\* the host part of a source token: what follows `://' when there is one
host_part(src) ==
    IF StrContains(src, SCHEME_SEP)
    THEN SubSeq(src, Find(src, SCHEME_SEP) + Len(SCHEME_SEP), Len(src))
    ELSE src

\* the labels compared from the top-level domain down
RECURSIVE match_labels(_, _)
match_labels(srcLabels, domainLabels) ==
    IF srcLabels = <<>> \/ domainLabels = <<>>
    THEN srcLabels = <<>> /\ domainLabels = <<>>
    ELSE LET s == srcLabels[Len(srcLabels)]
             d == domainLabels[Len(domainLabels)]
         IN  /\ s = STAR \/ Lower(s) = Lower(d)
             /\ match_labels(SubSeq(srcLabels, 1, Len(srcLabels) - 1),
                             SubSeq(domainLabels, 1, Len(domainLabels) - 1))

csp_match_domains(src, bypassDomain) ==
    match_labels(Split(host_part(src), DOT), bypassDomain)

(***************************************************************************)
(* csp_parser.CSP_KNOWN_BYPASSES: directive -> list of (domain, payload).  *)
(***************************************************************************)
GOOGLEAPIS_COM == <<"g","o","o","g","l","e","a","p","i","s",".","c","o","m">>
AJAX_GOOGLEAPIS_COM == <<"a","j","a","x",".">> \o GOOGLEAPIS_COM
MAPS_GOOGLEAPIS_COM == <<"m","a","p","s",".">> \o GOOGLEAPIS_COM
CDNJS_CLOUDFLARE_COM ==
    <<"c","d","n","j","s",".","c","l","o","u","d","f","l","a","r","e",".","c","o","m">>

\* a Python tuple and a Python list: values of different types are never equal
PyTuple(items) == [type |-> "tuple", items |-> items]
PyList(items) == [type |-> "list", items |-> items]
PyEq(a, b) == a.type = b.type /\ a.items = b.items

CSP_KNOWN_BYPASSES ==
    << <<SCRIPT_SRC,
         << PyTuple(<<AJAX_GOOGLEAPIS_COM, "angular-ng-app">>),
            PyTuple(<<MAPS_GOOGLEAPIS_COM, "jsonp-callback">>),
            PyTuple(<<CDNJS_CLOUDFLARE_COM, "angular-cdnjs">>) >> >> >>

\* list.index(x) + 1: the first position whose element equals x; 0: ValueError
ListIndex(list, x) ==
    IF \E i \in 1..Len(list) : PyEq(list[i], x)
    THEN CHOOSE i \in 1..Len(list) :
            PyEq(list[i], x) /\ \A j \in 1..(i - 1) : ~PyEq(list[j], x)
    ELSE 0

(***************************************************************************)
(* The scanner's state.                                                    *)
(***************************************************************************)
VARIABLES
    issues,            \* self.issues
    burpHttpReqResp,   \* self._burpHttpReqResp
    response,          \* self.response
    pc,                \* where each host worker is in doPassiveScan
    httpMessage,       \* doPassiveScan's argument, per worker
    headers,           \* the header list proccessHttpResponse iterates, per worker
    idx,               \* the position in that list, per worker
    csp,               \* parseContentSecurityPolicy's local, per worker
    analysed,          \* the header positions whose rule checks all ran, per worker
    error,             \* the exception leaving the call, per worker
    result,            \* what the worker's last call gave the host
    calls,             \* the doPassiveScan calls begun
    matchCall          \* one call of _bypassMatchDomainsToSrc

vars == <<issues, burpHttpReqResp, response, pc, httpMessage, headers, idx, csp,
          analysed, error, result, calls, matchCall>>

Workers == {1, 2}

CSP_HEADERS == <<"content-security-policy", "x-content-security-policy", "x-webkit-csp">>

\* a message of the host: its handle (id), URL, HTTP service and response
Message(id, empty, hdrs) ==
    [id |-> id,
     url |-> "https://" \o id \o ".example/",
     service |-> "svc-" \o id,
     response |-> [origin |-> id, empty |-> empty, headers |-> hdrs]]

None == Message("None", TRUE, <<>>)

Header(name, value) == [name |-> name, value |-> value]

getUrl == burpHttpReqResp.url

getHttpService == burpHttpReqResp.service

\* an IScanIssue built by a rule check.  origin is the message whose response
\* held the header the check ran on (bookkeeping; not a field of the issue)
ScanIssue(name, severity, directive, payload, origin) ==
    [name |-> name,
     httpService |-> getHttpService,
     url |-> getUrl,
     httpMessages |-> burpHttpReqResp.id,
     severity |-> severity,
     confidence |-> "Certain",
     directive |-> directive,
     payload |-> payload,
     origin |-> origin]

\* the concatenation of f[1], ..., f[n]
RECURSIVE Flatten(_)
Flatten(lists) ==
    IF lists = <<>> THEN <<>> ELSE Head(lists) \o Flatten(Tail(lists))

(***************************************************************************)
(* The rule checks: each gives the issues it appends to self.issues.       *)
(***************************************************************************)
deprecatedHeaderCheck(policy, origin) ==
    IF is_deprecated_header(policy)
    THEN <<ScanIssue("DeprecatedHeader", "Medium", "", "", origin)>>
    ELSE <<>>

\* unsafeContentSourceCheck reading the explicit entries only, without the
\* fallback to default-src
unsafeContentSourceCheckExplicit(policy, origin) ==
    LET directives == <<SCRIPT_SRC, STYLE_SRC>>
        listed(d) == IF has_explicit(policy, d) THEN policy.directives[d] ELSE <<>>
    IN  Flatten([i \in 1..Len(directives) |->
            IF \/ InList(UNSAFE_EVAL, listed(directives[i]))
               \/ InList(UNSAFE_INLINE, listed(directives[i]))
            THEN <<ScanIssue("UnsafeContentSource", "High", directives[i], "", origin)>>
            ELSE <<>>])

unsafeContentSourceCheck(policy, origin) ==
    LET directives == <<SCRIPT_SRC, STYLE_SRC>>
    IN  Flatten([i \in 1..Len(directives) |->
            IF \/ InList(UNSAFE_EVAL, csp_getitem(policy, directives[i]).sources)
               \/ InList(UNSAFE_INLINE, csp_getitem(policy, directives[i]).sources)
            THEN <<ScanIssue("UnsafeContentSource", "High", directives[i], "", origin)>>
            ELSE <<>>])

wildcardContentSourceCheck(policy, origin) ==
    LET items == csp_iteritems(policy)
    IN  Flatten([i \in 1..Len(items) |->
            IF items[i][2].absent
            THEN <<>>
            ELSE IF \E k \in 1..Len(items[i][2].sources) :
                        StrContains(items[i][2].sources[k], STAR)
            THEN <<ScanIssue("WildcardContentSource", "Medium", items[i][1], "", origin)>>
            ELSE <<>>])

insecureContentSourceCheck(policy, origin) == <<>>

\* missingDirectiveCheck testing `not csp[directive]' (no sources) in place of
\* `directive not in csp'
missingDirectiveCheckByLookup(policy, origin) ==
    Flatten([i \in 1..Len(NO_FALLBACK) |->
        IF csp_getitem(policy, NO_FALLBACK[i]).sources = <<>>
        THEN <<ScanIssue("MissingDirective", "Medium", NO_FALLBACK[i], "", origin)>>
        ELSE <<>>])

missingDirectiveCheck(policy, origin) ==
    Flatten([i \in 1..Len(NO_FALLBACK) |->
        IF ~csp_contains(policy, NO_FALLBACK[i])
        THEN <<ScanIssue("MissingDirective", "Medium", NO_FALLBACK[i], "", origin)>>
        ELSE <<>>])

weakDefaultSourceCheck(policy, origin) ==
    LET sources == csp_getitem(policy, DEFAULT_SRC).sources
        weak == \E k \in 1..Len(sources) : ~InList(sources[k], <<SELF, NONE, HTTPS>>)
    IN  IF weak
        THEN <<ScanIssue("WeakDefaultSource", "Medium", "", "", origin)>>
        ELSE <<>>

\* _bypassMatchDomainsToSrc leaving its loop at the first match
bypassMatchFirstDomainToSrc(src, bypassDomains) ==
    LET all == SelectSeq([i \in 1..Len(bypassDomains) |-> Split(bypassDomains[i], DOT)],
                         LAMBDA bypassDomain : csp_match_domains(src, bypassDomain))
    IN  IF all = <<>> THEN <<>> ELSE <<Head(all)>>

\* the label lists of the bypass domains that src matches, in catalog order
bypassMatchDomainsToSrc(src, bypassDomains) ==
    SelectSeq([i \in 1..Len(bypassDomains) |-> Split(bypassDomains[i], DOT)],
              LAMBDA bypassDomain : csp_match_domains(src, bypassDomain))

\* lines 199-201: one issue per found bypass, its payload looked up by
\* knownBypasses.index(bypass); raised = TRUE: index raised ValueError
RECURSIVE createKnownBypassIssues(_, _, _, _, _)
createKnownBypassIssues(found, knownBypasses, directive, origin, acc) ==
    IF found = <<>> THEN [issues |-> acc, raised |-> FALSE]
    ELSE LET at == ListIndex(knownBypasses, PyList(Head(found)))
         IN  IF at = 0
             THEN [issues |-> acc, raised |-> TRUE]
             ELSE createKnownBypassIssues(Tail(found), knownBypasses, directive, origin,
                      Append(acc, ScanIssue("KnownCSPBypass", "Medium", directive,
                                            knownBypasses[at].items[2], origin)))

RECURSIVE bypassCheckSources(_, _, _, _, _)
bypassCheckSources(sources, knownBypasses, directive, origin, acc) ==
    IF sources = <<>> THEN [issues |-> acc, raised |-> FALSE]
    ELSE LET src == Head(sources)
             bypassDomains == [i \in 1..Len(knownBypasses) |-> knownBypasses[i].items[1]]
         IN  IF StartsWith(src, QUOTE) \/ InList(src, <<HTTP, HTTPS>>)
             THEN bypassCheckSources(Tail(sources), knownBypasses, directive, origin, acc)
             ELSE LET r == createKnownBypassIssues(
                               bypassMatchDomainsToSrc(src, bypassDomains),
                               knownBypasses, directive, origin, acc)
                  IN  IF r.raised THEN r
                      ELSE bypassCheckSources(Tail(sources), knownBypasses, directive,
                                              origin, r.issues)

bypassCheckDirective(policy, directive, knownBypasses, origin, acc) ==
    bypassCheckSources(csp_getitem(policy, directive).sources, knownBypasses,
                       directive, origin, acc)

RECURSIVE knownBypassCheckFrom(_, _, _, _)
knownBypassCheckFrom(catalog, policy, origin, acc) ==
    IF catalog = <<>> THEN [issues |-> acc, raised |-> FALSE]
    ELSE LET r == bypassCheckDirective(policy, Head(catalog)[1], Head(catalog)[2],
                                       origin, acc)
         IN  IF r.raised THEN r
             ELSE knownBypassCheckFrom(Tail(catalog), policy, origin, r.issues)

knownBypassCheck(policy, origin) ==
    knownBypassCheckFrom(CSP_KNOWN_BYPASSES, policy, origin, <<>>)

(***************************************************************************)
(* The messages the host hands to doPassiveScan.                           *)
(***************************************************************************)
Clause(name, sources) == [name |-> name, sources |-> sources]

CDN_EXAMPLE_NET ==
    <<"h","t","t","p","s",":","/","/","c","d","n",".","e","x","a","m","p","l","e",".","n","e","t">>
STAR_GOOGLEAPIS_COM == <<"*", ".">> \o GOOGLEAPIS_COM
HTTPS_AJAX_GOOGLEAPIS_COM == <<"h","t","t","p","s",":","/","/">> \o AJAX_GOOGLEAPIS_COM
CSP_REPORT_PATH == <<"/","c","s","p">>

\* tests.py: CSP_TEST_PARSER_1 and CSP_TEST_INVALID_TYPES
CSP_TEST_PARSER_1 ==
    <<Clause("default-src", <<SELF, CDN_EXAMPLE_NET>>),
      Clause("child-src", <<NONE>>),
      Clause("object-src", <<NONE>>)>>
CSP_TEST_INVALID_TYPES ==
    <<Clause("default-src", <<SELF, CDN_EXAMPLE_NET>>),
      Clause("foobar-src", <<NONE>>),
      EmptyClause>>

\* an empty response; a response with no CSP header; one deprecated header;
\* three CSP headers, the second with an unrecognized directive; a policy
\* that whitelists a catalog domain
ScanMessages ==
    { Message("m0", TRUE, <<>>),
      Message("m1", FALSE, <<Header("Content-Type", <<>>)>>),
      Message("m2", FALSE,
              <<Header("X-WebKit-CSP", <<Clause("default-src", <<SELF>>)>>)>>),
      Message("m3", FALSE,
              <<Header("Content-Security-Policy", CSP_TEST_PARSER_1),
                Header("X-Content-Security-Policy", CSP_TEST_INVALID_TYPES),
                Header("X-WebKit-CSP",
                       <<Clause("script-src", <<SELF, UNSAFE_EVAL>>)>>)>>),
      Message("m4", FALSE,
              <<Header("Content-Security-Policy",
                       <<Clause("script-src", <<SELF, AJAX_GOOGLEAPIS_COM>>),
                         Clause("report-uri", <<CSP_REPORT_PATH>>)>>)>>) }

\* the header values of the parser's specification: up to MaxClauses clauses
ParseSourceLists ==
    { <<>>, <<SELF>>, <<SELF, UNSAFE_INLINE, SELF>>, <<STAR_GOOGLEAPIS_COM>>,
      <<HTTPS, CDN_EXAMPLE_NET>>, <<HTTPS_AJAX_GOOGLEAPIS_COM>> }
ParseClauses ==
    {Clause(n, l) : n \in {"default-src", "Script-Src", "style-src", "report-uri"},
                    l \in ParseSourceLists}
    \cup {Clause("FooBar-Src", <<NONE>>), EmptyClause}
ParseMessages ==
    {Message("m9", FALSE, <<Header(n, v)>>) :
        n \in {"Content-Security-Policy", "X-WebKit-CSP"},
        v \in SeqsOf(ParseClauses, 1, MaxClauses)}

(***************************************************************************)
(* The inputs of one _bypassMatchDomainsToSrc call: a source token built   *)
(* from a scheme prefix and labels, and a list of bypass domains.          *)
(***************************************************************************)
FOO == <<"f","o","o">>
FOO_UPPER == <<"F","o","O">>
BAR == <<"b","a","r">>
BAR_UPPER == <<"B","A","R">>
WS_SCHEME == <<"w","s",":","/","/">>

MatchSchemes == {<<>>, WS_SCHEME}
MatchSrcLabels == {FOO, FOO_UPPER, BAR, STAR}
MatchDomainLabels == {FOO, BAR, BAR_UPPER}

NoMatchCall ==
    [scheme |-> <<>>, labels |-> <<>>, src |-> <<>>, domainLabels |-> <<>>,
     bypassDomains |-> <<>>, done |-> FALSE, matches |-> <<>>]

MatchCalls ==
    {[scheme |-> sc, labels |-> ls, src |-> sc \o Join(ls, DOT),
      domainLabels |-> ds,
      bypassDomains |-> [i \in 1..Len(ds) |-> Join(ds[i], DOT)],
      done |-> FALSE, matches |-> <<>>] :
        sc \in MatchSchemes,
        ls \in SeqsOf(MatchSrcLabels, 1, MaxLabels),
        ds \in {<<d>> : d \in SeqsOf(MatchDomainLabels, 1, MaxLabels)}
               \cup {<<d, <<FOO, BAR>> >> : d \in SeqsOf(MatchDomainLabels, 1, MaxLabels)}}

(***************************************************************************)
(* ContentSecurityPolicyScan.__init__                                      *)
(***************************************************************************)
NoResult == [kind |-> "none", issues |-> <<>>]

Init ==
    /\ issues = <<>>
    /\ burpHttpReqResp = None
    /\ response = None.response
    /\ pc = [w \in Workers |-> "idle"]
    /\ httpMessage = [w \in Workers |-> None]
    /\ headers = [w \in Workers |-> None.response]
    /\ idx = [w \in Workers |-> 0]
    /\ csp = [w \in Workers |-> NoPolicy]
    /\ analysed = [w \in Workers |-> {}]
    /\ error = [w \in Workers |-> ""]
    /\ result = [w \in Workers |-> NoResult]
    /\ calls = 0
    /\ matchCall = NoMatchCall

(***************************************************************************)
(* doPassiveScan, step by step: a host worker may run between any two.     *)
(***************************************************************************)
\* lines 54-55
doPassiveScan(w, m) ==
    /\ pc[w] = "idle"
    /\ httpMessage' = [httpMessage EXCEPT ![w] = m]
    /\ analysed' = [analysed EXCEPT ![w] = {}]
    /\ error' = [error EXCEPT ![w] = ""]
    /\ result' = [result EXCEPT ![w] = NoResult]
    /\ calls' = calls + 1
    /\ IF m.response.empty
       THEN /\ pc' = [pc EXCEPT ![w] = "return"]
            /\ UNCHANGED burpHttpReqResp
       ELSE /\ pc' = [pc EXCEPT ![w] = "process"]
            /\ burpHttpReqResp' = m
    /\ UNCHANGED <<issues, response, headers, idx, csp, matchCall>>

\* lines 75-77
proccessHttpResponse(w) ==
    /\ pc[w] = "process"
    /\ response' = httpMessage[w].response
    /\ pc' = [pc EXCEPT ![w] = "getheaders"]
    /\ UNCHANGED <<issues, burpHttpReqResp, httpMessage, headers, idx, csp,
                   analysed, error, result, calls, matchCall>>

\* line 78: self.response.getheaders()
getheaders(w) ==
    /\ pc[w] = "getheaders"
    /\ headers' = [headers EXCEPT ![w] = response]
    /\ idx' = [idx EXCEPT ![w] = 1]
    /\ pc' = [pc EXCEPT ![w] = "loop"]
    /\ UNCHANGED <<issues, burpHttpReqResp, response, httpMessage, csp,
                   analysed, error, result, calls, matchCall>>

CurrentHeader(w) == headers[w].headers[idx[w]]

\* lines 78-80: the next header, and whether it is a CSP header
nextHeader(w) ==
    /\ pc[w] = "loop"
    /\ IF idx[w] > Len(headers[w].headers)
       THEN /\ pc' = [pc EXCEPT ![w] = "return"]
            /\ UNCHANGED idx
       ELSE IF InList(LowerName(CurrentHeader(w).name), CSP_HEADERS)
       THEN /\ pc' = [pc EXCEPT ![w] = "construct"]
            /\ UNCHANGED idx
       ELSE /\ pc' = [pc EXCEPT ![w] = "loop"]
            /\ idx' = [idx EXCEPT ![w] = idx[w] + 1]
    /\ UNCHANGED <<issues, burpHttpReqResp, response, httpMessage, headers, csp,
                   analysed, error, result, calls, matchCall>>

\* parseContentSecurityPolicy swallowing the constructor's ValueError and
\* running the rule checks on a policy with no directives
constructAndCarryOn(w) ==
    /\ pc[w] = "construct"
    /\ LET policy == ContentSecurityPolicy(CurrentHeader(w).name, CurrentHeader(w).value)
       IN  csp' = [csp EXCEPT ![w] =
                      IF policy.ok THEN policy
                      ELSE [NoPolicy EXCEPT !.header_name = CurrentHeader(w).name]]
    /\ pc' = [pc EXCEPT ![w] = "deprecated"]
    /\ UNCHANGED <<issues, burpHttpReqResp, response, httpMessage, headers, idx,
                   analysed, error, result, calls, matchCall>>

\* line 84: a ValueError of the constructor leaves parseContentSecurityPolicy,
\* proccessHttpResponse and doPassiveScan (no handler on the way)
construct(w) ==
    /\ pc[w] = "construct"
    /\ LET policy == ContentSecurityPolicy(CurrentHeader(w).name, CurrentHeader(w).value)
       IN  /\ csp' = [csp EXCEPT ![w] = policy]
           /\ IF policy.ok
              THEN /\ pc' = [pc EXCEPT ![w] = "deprecated"]
                   /\ UNCHANGED error
              ELSE /\ pc' = [pc EXCEPT ![w] = "raise"]
                   /\ error' = [error EXCEPT ![w] = "ParseError"]
    /\ UNCHANGED <<issues, burpHttpReqResp, response, httpMessage, headers, idx,
                   analysed, result, calls, matchCall>>

\* one rule check of lines 85-90: at `at', appending `found', going on at `to'
RuleCheck(w, at, to, found) ==
    /\ pc[w] = at
    /\ issues' = issues \o found
    /\ pc' = [pc EXCEPT ![w] = to]
    /\ UNCHANGED <<burpHttpReqResp, response, httpMessage, headers, idx, csp,
                   analysed, error, result, calls, matchCall>>

deprecatedHeader(w) ==
    RuleCheck(w, "deprecated", "unsafe", deprecatedHeaderCheck(csp[w], headers[w].origin))

unsafeContentSource(w) ==
    RuleCheck(w, "unsafe", "wildcard", unsafeContentSourceCheck(csp[w], headers[w].origin))

wildcardContentSource(w) ==
    RuleCheck(w, "wildcard", "insecure",
              wildcardContentSourceCheck(csp[w], headers[w].origin))

insecureContentSource(w) ==
    RuleCheck(w, "insecure", "missing",
              insecureContentSourceCheck(csp[w], headers[w].origin))

missingDirective(w) ==
    RuleCheck(w, "missing", "weak", missingDirectiveCheck(csp[w], headers[w].origin))

weakDefaultSource(w) ==
    RuleCheck(w, "weak", "bypass", weakDefaultSourceCheck(csp[w], headers[w].origin))

\* line 91: the last check; a ValueError of list.index leaves the call
knownBypass(w) ==
    /\ pc[w] = "bypass"
    /\ LET r == knownBypassCheck(csp[w], headers[w].origin)
       IN  /\ issues' = issues \o r.issues
           /\ IF r.raised
              THEN /\ pc' = [pc EXCEPT ![w] = "raise"]
                   /\ error' = [error EXCEPT ![w] = "ValueError"]
                   /\ UNCHANGED <<idx, analysed>>
              ELSE /\ pc' = [pc EXCEPT ![w] = "loop"]
                   /\ idx' = [idx EXCEPT ![w] = idx[w] + 1]
                   /\ analysed' = [analysed EXCEPT ![w] = analysed[w] \cup {idx[w]}]
                   /\ UNCHANGED error
    /\ UNCHANGED <<burpHttpReqResp, response, httpMessage, headers, csp,
                   result, calls, matchCall>>

\* line 57: return self.issues
return(w) ==
    /\ pc[w] = "return"
    /\ result' = [result EXCEPT ![w] = [kind |-> "returned", issues |-> issues]]
    /\ pc' = [pc EXCEPT ![w] = "idle"]
    /\ UNCHANGED <<issues, burpHttpReqResp, response, httpMessage, headers, idx, csp,
                   analysed, error, calls, matchCall>>

\* the exception reaches the host: the call returns no list
raise(w) ==
    /\ pc[w] = "raise"
    /\ result' = [result EXCEPT ![w] = [kind |-> "raised", issues |-> <<>>]]
    /\ pc' = [pc EXCEPT ![w] = "idle"]
    /\ UNCHANGED <<issues, burpHttpReqResp, response, httpMessage, headers, idx, csp,
                   analysed, error, calls, matchCall>>

Step(w) ==
    \/ proccessHttpResponse(w)
    \/ getheaders(w)
    \/ nextHeader(w)
    \/ construct(w)
    \/ deprecatedHeader(w)
    \/ unsafeContentSource(w)
    \/ wildcardContentSource(w)
    \/ insecureContentSource(w)
    \/ missingDirective(w)
    \/ weakDefaultSource(w)
    \/ knownBypass(w)
    \/ return(w)
    \/ raise(w)

\* the host calls doPassiveScan for one message after another
Scan(w) == calls < MaxCalls /\ \E m \in ScanMessages : doPassiveScan(w, m)

\* one response after another, on one worker
Next == Scan(1) \/ Step(1)

Spec == Init /\ [][Next]_vars

\* the host's workers run doPassiveScan on the same scanner in parallel
NextPar == \E w \in Workers : Scan(w) \/ Step(w)

SpecPar == Init /\ [][NextPar]_vars

\* one response with one CSP header, its value drawn from ParseMessages
ScanParse == calls = 0 /\ \E m \in ParseMessages : doPassiveScan(1, m)

NextParse == ScanParse \/ Step(1)

SpecParse == Init /\ [][NextParse]_vars

\* one call of _bypassMatchDomainsToSrc
InitMatch ==
    /\ issues = <<>>
    /\ burpHttpReqResp = None
    /\ response = None.response
    /\ pc = [w \in Workers |-> "idle"]
    /\ httpMessage = [w \in Workers |-> None]
    /\ headers = [w \in Workers |-> None.response]
    /\ idx = [w \in Workers |-> 0]
    /\ csp = [w \in Workers |-> NoPolicy]
    /\ analysed = [w \in Workers |-> {}]
    /\ error = [w \in Workers |-> ""]
    /\ result = [w \in Workers |-> NoResult]
    /\ calls = 0
    /\ matchCall \in MatchCalls

bypassMatch ==
    /\ ~matchCall.done
    /\ matchCall' = [matchCall EXCEPT
                        !.done = TRUE,
                        !.matches = bypassMatchDomainsToSrc(matchCall.src,
                                                            matchCall.bypassDomains)]
    /\ UNCHANGED <<issues, burpHttpReqResp, response, pc, httpMessage, headers, idx,
                   csp, analysed, error, result, calls>>

NextMatch == bypassMatch

SpecMatch == InitMatch /\ [][NextMatch]_vars

(***************************************************************************)
(* What the claims speak of.                                               *)
(***************************************************************************)
Range(f) == {f[i] : i \in DOMAIN f}

\* the call of worker w is over
CallOver(w) == pc[w] = "idle" /\ result[w].kind # "none"

\* the positions of the CSP-family headers of a message
CspHeaderPositions(m) ==
    {j \in 1..Len(m.response.headers) :
        LowerName(m.response.headers[j].name) \in Range(CSP_HEADERS)}

\* the clauses of a header value that name directive d, whatever the case
ClausesOf(value, d) == {i \in 1..Len(value) : LowerName(value[i].name) = d}

\* the header value lists directive d
Listed(value, d) == ClausesOf(value, d) # {}

\* the source tokens the header value gives d: those of its last clause for d
ListedSources(value, d) ==
    value[CHOOSE i \in ClausesOf(value, d) : \A j \in ClausesOf(value, d) : j <= i].sources

\* a clause of the header value names no recognized directive
Unrecognized(value) ==
    \E i \in 1..Len(value) :
        value[i].name # "" /\ LowerName(value[i].name) \notin Range(DIRECTIVES)

\* the value of the one header of the message worker w analyses (SpecParse)
HeaderValue(w) == httpMessage[w].response.headers[1].value

\* the issues of one kind about one directive
IssuesOf(name, d) ==
    {i \in 1..Len(issues) : issues[i].name = name /\ issues[i].directive = d}

(***************************************************************************)
(* C1: the list a doPassiveScan call returns holds only findings derived   *)
(* from the response passed to that call, and is empty when that response  *)
(* is empty or has no CSP-family header.                                   *)
(***************************************************************************)
C1_ReturnsOnlyOwnFindings ==
    \A w \in Workers :
        result[w].kind = "returned" =>
            /\ \A i \in 1..Len(result[w].issues) :
                    result[w].issues[i].origin = httpMessage[w].id
            /\ (httpMessage[w].response.empty \/ CspHeaderPositions(httpMessage[w]) = {})
                    => result[w].issues = <<>>

(***************************************************************************)
(* C2: with two doPassiveScan calls interleaved, every finding carries the *)
(* URL, HTTP service and message handle of the response it was derived     *)
(* from, and a call returns the findings of its own response only.         *)
(***************************************************************************)
C2_FindingsCarryOwnResponse ==
    /\ \A i \in 1..Len(issues) :
            /\ issues[i].httpMessages = issues[i].origin
            /\ issues[i].url = Message(issues[i].origin, FALSE, <<>>).url
            /\ issues[i].httpService = Message(issues[i].origin, FALSE, <<>>).service
    /\ \A w \in Workers :
            result[w].kind = "returned" =>
                \A i \in 1..Len(result[w].issues) :
                    /\ result[w].issues[i].origin = httpMessage[w].id
                    /\ result[w].issues[i].httpMessages = httpMessage[w].id

(***************************************************************************)
(* C3: a ParseError raised for one CSP-family header of a response does    *)
(* not abort the analysis of its other CSP-family headers: when the call   *)
(* is over, every other CSP-family header with a valid value has been      *)
(* parsed and has had all its rule checks run.                             *)
(***************************************************************************)
C3_ParseErrorIsLocal ==
    \A w \in Workers :
        (CallOver(w) /\ error[w] = "ParseError") =>
            \A j \in CspHeaderPositions(httpMessage[w]) :
                ~Unrecognized(httpMessage[w].response.headers[j].value)
                    => j \in analysed[w]

(***************************************************************************)
(* C4: a header value with a clause whose lowercased directive name is not *)
(* recognized fails with a ParseError, whatever its other clauses are: no  *)
(* policy is produced and no rule check emits a finding for that header.   *)
(***************************************************************************)
C4_UnrecognizedDirectiveFails ==
    \A w \in Workers :
        (httpMessage[w] # None /\ Unrecognized(HeaderValue(w))) =>
            /\ ~csp[w].ok
            /\ issues = <<>>
            /\ result[w].kind # "returned"
            /\ pc[w] \in {"process", "getheaders", "loop", "construct", "raise", "idle"}
            /\ pc[w] \in {"raise", "idle"} => error[w] = "ParseError"

C4_Witness ==
    /\ CallOver(1) /\ result[1].kind = "raised" /\ error[1] = "ParseError"
    /\ Len(HeaderValue(1)) = 2
    /\ LowerName(HeaderValue(1)[1].name) = DEFAULT_SRC
    /\ HeaderValue(1)[2].name = "FooBar-Src"

(***************************************************************************)
(* C5: in a parsed policy with default-src explicit, a directive D that    *)
(* the header does not list and that is not in NO_FALLBACK has default-    *)
(* src's token sequence as its effective lookup (same tokens, same order,  *)
(* duplicates kept); the unsafe-content-source check reads script-src and  *)
(* style-src through that lookup.                                          *)
(***************************************************************************)
Inherits(value, d) ==
    /\ d \in Range(DIRECTIVES) \ Range(NO_FALLBACK)
    /\ ~Listed(value, d)
    /\ Listed(value, DEFAULT_SRC)

UnsafeRan(w) ==
    csp[w].ok /\ pc[w] \in {"wildcard", "insecure", "missing", "weak", "bypass",
                            "loop", "return", "raise", "idle"}

C5_FallbackIsDefaultSrc ==
    \A w \in Workers :
        csp[w].ok =>
            \A d \in Range(DIRECTIVES) :
                Inherits(HeaderValue(w), d) =>
                    /\ csp_getitem(csp[w], d) = Sources(ListedSources(HeaderValue(w), DEFAULT_SRC))
                    /\ (UnsafeRan(w) /\ d \in {SCRIPT_SRC, STYLE_SRC}) =>
                          (IssuesOf("UnsafeContentSource", d) # {}
                             <=> \/ UNSAFE_EVAL \in Range(ListedSources(HeaderValue(w), DEFAULT_SRC))
                                 \/ UNSAFE_INLINE \in Range(ListedSources(HeaderValue(w), DEFAULT_SRC)))

C5_Witness ==
    /\ CallOver(1) /\ csp[1].ok
    /\ Inherits(HeaderValue(1), SCRIPT_SRC)
    /\ ListedSources(HeaderValue(1), DEFAULT_SRC) = <<SELF, UNSAFE_INLINE, SELF>>
    /\ csp_getitem(csp[1], SCRIPT_SRC).sources = <<SELF, UNSAFE_INLINE, SELF>>
    /\ IssuesOf("UnsafeContentSource", SCRIPT_SRC) # {}

LabelsMatch(srcLabels, domainLabels) ==
    /\ Len(srcLabels) = Len(domainLabels)
    /\ \A k \in 1..Len(srcLabels) :
            srcLabels[k] = STAR \/ Lower(srcLabels[k]) = Lower(domainLabels[k])

C7_MatcherIsLabelwise ==
    matchCall.done =>
        matchCall.matches =
            SelectSeq(matchCall.domainLabels,
                      LAMBDA d : LabelsMatch(matchCall.labels, d))

C7_Witness ==
    /\ matchCall.done
    /\ matchCall.scheme = WS_SCHEME
    /\ matchCall.labels = <<STAR, FOO_UPPER, BAR>>
    /\ matchCall.domainLabels = <<<<BAR_UPPER, FOO, BAR_UPPER>>, <<FOO, BAR>>>>
    /\ matchCall.matches = <<<<BAR_UPPER, FOO, BAR_UPPER>>>>

(***************************************************************************)
(* C8: a NO_FALLBACK directive that the header does not list never falls   *)
(* back to default-src (its lookup is absent) and the analysis of the      *)
(* header emits exactly one missing-directive finding for it; none is      *)
(* emitted for a NO_FALLBACK directive that the header lists.              *)
(***************************************************************************)
MissingRan(w) ==
    csp[w].ok /\ pc[w] \in {"weak", "bypass", "loop", "return", "raise", "idle"}

C8_NoFallbackMissing ==
    \A w \in Workers :
        csp[w].ok =>
            \A d \in Range(NO_FALLBACK) :
                /\ ~Listed(HeaderValue(w), d) => csp_getitem(csp[w], d).absent
                /\ MissingRan(w) =>
                      Cardinality(IssuesOf("MissingDirective", d))
                          = IF Listed(HeaderValue(w), d) THEN 0 ELSE 1

C8_Witness ==
    /\ CallOver(1) /\ csp[1].ok
    /\ Listed(HeaderValue(1), DEFAULT_SRC) /\ ListedSources(HeaderValue(1), DEFAULT_SRC) # <<>>
    /\ Listed(HeaderValue(1), REPORT_URI)
    /\ Cardinality(IssuesOf("MissingDirective", REPORT_URI)) = 0
    /\ Cardinality(IssuesOf("MissingDirective", SANDBOX)) = 1
    /\ csp_getitem(csp[1], SANDBOX).absent

(***************************************************************************)
(* C9: a directive outside NO_FALLBACK that the header lists with zero     *)
(* source tokens has default-src's list as its effective source list when  *)
(* default-src is specified, and is absent from the policy when it is not. *)
(***************************************************************************)
C9_EmptyDirectiveFallsBack ==
    \A w \in Workers :
        csp[w].ok =>
            \A d \in Range(DIRECTIVES) \ Range(NO_FALLBACK) :
                (Listed(HeaderValue(w), d) /\ ListedSources(HeaderValue(w), d) = <<>>) =>
                    IF Listed(HeaderValue(w), DEFAULT_SRC)
                    THEN csp_getitem(csp[w], d).sources
                             = ListedSources(HeaderValue(w), DEFAULT_SRC)
                    ELSE ~csp_contains(csp[w], d)

(***************************************************************************)
(* C10: the known-bypass check ends without error and emits, for every     *)
(* catalog directive, every token of its effective list that is neither a  *)
(* keyword nor http:/https:, and every catalog domain the token matches,   *)
(* exactly one finding with that directive and that domain's payload.      *)
(***************************************************************************)
\* the (directive, payload) pairs of the matches, in the order of the check
ExpectedBypasses(policy) ==
    Flatten([c \in 1..Len(CSP_KNOWN_BYPASSES) |->
        LET directive == CSP_KNOWN_BYPASSES[c][1]
            known == CSP_KNOWN_BYPASSES[c][2]
            sources == csp_getitem(policy, directive).sources
        IN  Flatten([k \in 1..Len(sources) |->
                IF sources[k][1] = "'" \/ sources[k] \in {HTTP, HTTPS}
                THEN <<>>
                ELSE Flatten([b \in 1..Len(known) |->
                        IF csp_match_domains(sources[k], Split(known[b].items[1], DOT))
                        THEN << <<directive, known[b].items[2]>> >>
                        ELSE <<>>])])])

KnownBypassRan(w) ==
    csp[w].ok /\ (error[w] = "ValueError" \/ analysed[w] # {})

C10_OneFindingPerMatch ==
    \A w \in Workers :
        KnownBypassRan(w) =>
            /\ error[w] # "ValueError"
            /\ LET found == SelectSeq(issues, LAMBDA f : f.name = "KnownCSPBypass")
               IN  [i \in 1..Len(found) |-> <<found[i].directive, found[i].payload>>]
                       = ExpectedBypasses(csp[w])

====
